---- MODULE Spec2Model ----
(***************************************************************************)
(* Model of the two pipeline steps of the short-term-rental price          *)
(* workflow: basic_cleaning/run.py (the outlier/range filter) and          *)
(* train_random_forest/run.py (date delta, column router, training         *)
(* pipeline, feature-importance plot).                                     *)
(*                                                                         *)
(* Numbers: prices are whole currency units; longitude and latitude are    *)
(* in hundredths of a degree (-74.25 is -7425, 41.2 is 4120); timestamps   *)
(* are in hours since the epoch of the model.                              *)
(***************************************************************************)
EXTENDS Integers, Sequences, FiniteSets, TLC

VARIABLES
    stage,      \* which program runs: "clean" or "train", or a function on its own
    pc,         \* position inside go()
    error,      \* the step that raised and ended the process, "" while none has
    args,       \* the parsed command line
    store,      \* artifact store: the versions of the dataset artifact, oldest first
    published,  \* the artifacts this run has logged with run.log_artifact
    df,         \* basic_cleaning go(): the frame df
    csv,        \* basic_cleaning go(): clean_sample.csv on local disk, <<>> if absent
    train       \* train_random_forest go(): its locals, one record

vars == <<stage, pc, error, args, store, published, df, csv, train>>

\* ------------------------------------------------------------------ bounds
MaxRows == 2
MaxRuns == 2
MaxTrainRows == 3
MaxDates == 2
MaxDay == 2
MaxCalls == 2
MaxFeatures == 3
MaxImportance == 2
MaxNames == 3

\* ------------------------------------------------------------ cleaning data
\* A missing cell, as pd.read_csv produces for an empty field.
NaN == -999999

PriceValues == {9, 10, 11}
LonValues == {-7426, -7425}
LatValues == {4120, 4121}
OtherValues == {NaN, 1}
PriceBounds == {10, 11}

\* One line of a CSV file: a value per column, no index.
CsvRows ==
    { [price |-> p, longitude |-> lo, latitude |-> la, reviews_per_month |-> r] :
        p \in PriceValues, lo \in LonValues, la \in LatValues, r \in OtherValues }

SeqsUpTo(S, n) == UNION { [1..k -> S] : k \in 0..n }

RawFiles == SeqsUpTo(CsvRows, MaxRows)

\* ------------------------------------------------------- pandas operations
\* pd.read_csv: each line becomes a row labelled by a RangeIndex.
read_csv(file) == [i \in 1..Len(file) |-> [idx |-> i - 1, row |-> file[i]]]

\* Series.between with inclusive="neither".
between_exclusive(v, left, right) == v # NaN /\ left < v /\ v < right

\* Series.between(left, right): inclusive on both ends, False on NaN.
between(v, left, right) == v # NaN /\ left <= v /\ v <= right

\* df[mask]: the rows whose mask is True, in their order.
RECURSIVE SelectRows(_, _)
SelectRows(frame, mask) ==
    IF frame = <<>> THEN <<>>
    ELSE LET n == Len(frame)
             front == SelectRows(SubSeq(frame, 1, n - 1), SubSeq(mask, 1, n - 1))
         IN IF mask[n] THEN Append(front, frame[n]) ELSE front

PriceInRange(r) == between(r.row.price, args.min_price, args.max_price)

\* DataFrame.dropna(): a row stays when none of its cells is missing.
HasNoNa(r) == \A c \in DOMAIN r.row : r.row[c] # NaN

LonMin == -7425
LonMax == -7350
LatMin == 4050
LatMax == 4120

\* The box test with the latitude condition left out.
InBoxLongitudeOnly(r) == r.row.longitude # NaN /\ LonMin <= r.row.longitude /\ r.row.longitude <= LonMax

InBox(r) ==
    /\ between(r.row.longitude, LonMin, LonMax)
    /\ between(r.row.latitude, LatMin, LatMax)

\* df.to_csv(path) with the default index=True: the label is written as a first,
\* unnamed column, which read_csv reads back as "Unnamed: 0".
to_csv_with_index(frame) ==
    [i \in 1..Len(frame) |->
        [c \in DOMAIN frame[i].row \cup {"Unnamed: 0"} |->
            IF c = "Unnamed: 0" THEN frame[i].idx ELSE frame[i].row[c]]]

\* df.to_csv(path, index=False): the rows' values, the index not written.
to_csv(frame) == [i \in 1..Len(frame) |-> frame[i].row]

NoFile == <<>>

\* ------------------------------------------------------ basic_cleaning go()
InitClean ==
    /\ stage = "clean"
    /\ pc = "init"
    /\ error = ""
    /\ \E lo \in PriceBounds, hi \in PriceBounds :
          args = [input_artifact |-> 1, min_price |-> lo, max_price |-> hi]
    /\ \E raw \in RawFiles : store = <<raw>>
    /\ published = <<>>
    /\ df = <<>>
    /\ csv = NoFile
    /\ train = <<>>

\* wandb.init and run.config.update
CleanWandbInit ==
    /\ stage = "clean" /\ pc = "init"
    /\ pc' = "use_artifact"
    /\ UNCHANGED <<stage, error, args, store, published, df, csv, train>>

\* run.use_artifact(args.input_artifact).file()
CleanUseArtifact ==
    /\ stage = "clean" /\ pc = "use_artifact"
    /\ args.input_artifact \in 1..Len(store)
    /\ pc' = "read_csv"
    /\ UNCHANGED <<stage, error, args, store, published, df, csv, train>>

CleanReadCsv ==
    /\ stage = "clean" /\ pc = "read_csv"
    /\ df' = read_csv(store[args.input_artifact])
    /\ pc' = "price_filter"
    /\ UNCHANGED <<stage, error, args, store, published, csv, train>>

CleanPriceFilter ==
    /\ stage = "clean" /\ pc = "price_filter"
    /\ df' = SelectRows(df, [i \in DOMAIN df |-> PriceInRange(df[i])])
    /\ pc' = "dropna"
    /\ UNCHANGED <<stage, error, args, store, published, csv, train>>

CleanDropNa ==
    /\ stage = "clean" /\ pc = "dropna"
    /\ df' = SelectRows(df, [i \in DOMAIN df |-> HasNoNa(df[i])])
    /\ pc' = "geo_filter"
    /\ UNCHANGED <<stage, error, args, store, published, csv, train>>

CleanGeoFilter ==
    /\ stage = "clean" /\ pc = "geo_filter"
    /\ df' = SelectRows(df, [i \in DOMAIN df |-> InBox(df[i])])
    /\ pc' = "to_csv"
    /\ UNCHANGED <<stage, error, args, store, published, csv, train>>

CleanToCsv ==
    /\ stage = "clean" /\ pc = "to_csv"
    /\ csv' = <<to_csv(df)>>
    /\ pc' = "log_artifact"
    /\ UNCHANGED <<stage, error, args, store, published, df, train>>

\* wandb.Artifact, add_file, run.log_artifact: a new version of the artifact.
CleanLogArtifact ==
    /\ stage = "clean" /\ pc = "log_artifact"
    /\ store' = Append(store, csv[1])
    /\ published' = Append(published, Len(store) + 1)
    /\ pc' = "done"
    /\ UNCHANGED <<stage, error, args, df, csv, train>>

\* The steps of go() that call a service or the file system and may raise; the
\* exception is caught nowhere, the process ends and its frames are gone.
CleanRaisingSteps ==
    {"init", "use_artifact", "read_csv", "price_filter", "to_csv", "log_artifact"}

CleanRaise ==
    /\ stage = "clean" /\ pc \in CleanRaisingSteps
    /\ error' = pc
    /\ pc' = "failed"
    /\ df' = <<>>
    /\ UNCHANGED <<stage, args, store, published, csv, train>>

\* The stage invoked again (__main__), on the version the last run logged and
\* with the same price bounds.
CleanMain ==
    /\ stage = "clean" /\ pc = "done"
    /\ Len(store) <= MaxRuns
    /\ args' = [args EXCEPT !.input_artifact = Len(store)]
    /\ published' = <<>>
    /\ df' = <<>>
    /\ pc' = "init"
    /\ UNCHANGED <<stage, error, store, csv, train>>

NextClean ==
    \/ CleanWandbInit
    \/ CleanUseArtifact
    \/ CleanReadCsv
    \/ CleanPriceFilter
    \/ CleanDropNa
    \/ CleanGeoFilter
    \/ CleanToCsv
    \/ CleanLogArtifact
    \/ CleanRaise
    \/ CleanMain

SpecClean == InitClean /\ [][NextClean]_vars

\* ------------------------------------------------------------ training data
\* A cell of the training frame is <<v>>, or <<>> when the value is missing.
Cell(v) == <<v>>
NoValue == <<>>
IsNa(cell) == cell = NoValue
ValueOf(cell) == cell[1]

\* The values a column can take, in sorted order (the encoders sort what they learn).
NeighbourhoodGroups == <<"Bronx", "Queens">>
RoomTypes == <<"Private room">>
Terms == <<"cozy", "loft">>

RankIn(sorted, v) == CHOOSE i \in 1..Len(sorted) : sorted[i] = v

SeqRange(s) == { s[i] : i \in 1..Len(s) }

\* Sort a set of values by their rank in `sorted`.
RECURSIVE SortBy(_, _)
SortBy(sorted, S) ==
    IF S = {} THEN <<>>
    ELSE LET m == CHOOSE x \in S : \A z \in S : RankIn(sorted, x) <= RankIn(sorted, z)
         IN <<m>> \o SortBy(sorted, S \ {m})

NameValues == {NoValue, Cell(<<"cozy", "loft">>)}
GroupValues == { Cell(g) : g \in SeqRange(NeighbourhoodGroups) }

\* One line of the train/validation CSV. "id" is a column no transformer is given.
TrainLine(g, n) ==
    [id |-> Cell(1), name |-> n, neighbourhood_group |-> g,
     room_type |-> Cell("Private room"), price |-> Cell(100),
     minimum_nights |-> Cell(1), number_of_reviews |-> Cell(1),
     reviews_per_month |-> NoValue, calculated_host_listings_count |-> Cell(1),
     availability_365 |-> Cell(1), longitude |-> Cell(-7400), latitude |-> Cell(4070),
     last_review |-> NoValue]

TrainLines == { TrainLine(g, n) : g \in GroupValues, n \in NameValues }

TrainValFiles == SeqsUpTo(TrainLines, MaxTrainRows)

\* The columns of a frame (all its rows have the same).
Columns(frame) == IF frame = <<>> THEN {} ELSE DOMAIN frame[1]

\* X.pop("price"): the frame without that column.
DropColumn(frame, col) ==
    [i \in 1..Len(frame) |-> [c \in DOMAIN frame[i] \ {col} |-> frame[i][c]]]

\* The rows of a frame at the given positions, in the frame's order.
RECURSIVE TakeRows(_, _, _)
TakeRows(frame, keep, i) ==
    IF i > Len(frame) THEN <<>>
    ELSE (IF i \in keep THEN <<frame[i]>> ELSE <<>>) \o TakeRows(frame, keep, i + 1)

\* ceil(n * percent / 100)
CeilPercent(n, percent) == (n * percent + 99) \div 100

\* ------------------------------------------------------------- date delta
\* A date string as read from the CSV: a calendar day (counted from 2010-01-01)
\* and an hour of that day; "2010-01-03" is day 2, hour 0.
DateString(d, h) == [day |-> d, hour |-> h]

HoursPerDay == 24

\* pd.to_datetime: the timestamp a date string denotes, in hours.
to_datetime(str) == str.day * HoursPerDay + str.hour

\* Timedelta.days of a non-negative difference: whole days, the rest dropped.
days(hours) == hours \div HoursPerDay

SeqMax(s) == CHOOSE m \in SeqRange(s) : \A x \in SeqRange(s) : x <= m

\* A transform that keeps the most recent date it has seen: the maximum is taken
\* over this call's dates and those of the call before.
delta_date_feature_keeps_max(dates) ==
    LET date_sanitized == [i \in 1..Len(dates) |-> to_datetime(dates[i])]
        before == [i \in 1..Len(train.dates) |->
                      IF IsNa(train.dates[i]) THEN 0 ELSE to_datetime(ValueOf(train.dates[i]))]
    IN [i \in 1..Len(dates) |-> days(SeqMax(date_sanitized \o before) - date_sanitized[i])]

\* delta_date_feature on one column: the days from each date to the column's
\* most recent date, the maximum taken over the dates of this call.
delta_date_feature(dates) ==
    LET date_sanitized == [i \in 1..Len(dates) |-> to_datetime(dates[i])]
    IN [i \in 1..Len(dates) |-> days(SeqMax(date_sanitized) - date_sanitized[i])]

\* SimpleImputer(strategy="constant", fill_value=...) on one column.
impute_constant(column, fill_value) ==
    [i \in 1..Len(column) |-> IF IsNa(column[i]) THEN fill_value ELSE ValueOf(column[i])]

\* The fill value of date_imputer, '2010-01-01'.
DateFill == DateString(0, 0)

\* date_imputer: impute the constant date, then delta_date_feature.
date_imputer(column) == delta_date_feature(impute_constant(column, DateFill))

\* ---------------------------------------------------------- column router
ordinal_categorical == <<"room_type">>
non_ordinal_categorical == <<"neighbourhood_group">>
zero_imputed ==
    <<"minimum_nights", "number_of_reviews", "reviews_per_month",
      "calculated_host_listings_count", "availability_365", "longitude", "latitude">>

\* ColumnTransformer(transformers=[...], remainder="drop"): name and columns of
\* each transformer, in the order given.
transformers ==
    << [name |-> "ordinal_cat", columns |-> ordinal_categorical],
       [name |-> "non_ordinal_cat", columns |-> non_ordinal_categorical],
       [name |-> "impute_zero", columns |-> zero_imputed],
       [name |-> "transform_date", columns |-> <<"last_review">>],
       [name |-> "transform_name", columns |-> <<"name">>] >>

\* The names of the five transformers instead of their input columns.
processed_groups ==
    <<"ordinal_cat", "non_ordinal_cat", "impute_zero", "transform_date", "transform_name">>

processed_features ==
    ordinal_categorical \o non_ordinal_categorical \o zero_imputed \o <<"last_review", "name">>

ColumnOf(frame, col) == [i \in 1..Len(frame) |-> frame[i][col]]

Present(column) == { ValueOf(column[i]) : i \in { j \in 1..Len(column) : ~IsNa(column[j]) } }

CountOf(column, v) == Cardinality({ i \in 1..Len(column) : column[i] = Cell(v) })

\* SimpleImputer(strategy="most_frequent"): the most frequent value of the
\* column, the smallest one on a tie.  Only defined when a value is present.
most_frequent(column, sorted) ==
    CHOOSE v \in Present(column) :
        \A w \in Present(column) :
            \/ CountOf(column, v) > CountOf(column, w)
            \/ CountOf(column, v) = CountOf(column, w) /\ RankIn(sorted, v) <= RankIn(sorted, w)

\* The words of the documents of a column that are no English stop words.
TermsOf(column) == UNION { SeqRange(ValueOf(column[i])) : i \in { j \in 1..Len(column) : ~IsNa(column[j]) } }
                   \cap SeqRange(Terms)

TermCount(column, t) ==
    LET docs == { i \in 1..Len(column) : ~IsNa(column[i]) }
        Occ(i) == Cardinality({ k \in 1..Len(ValueOf(column[i])) : ValueOf(column[i])[k] = t })
        RECURSIVE Sum(_)
        Sum(D) == IF D = {} THEN 0 ELSE LET i == CHOOSE i \in D : TRUE IN Occ(i) + Sum(D \ {i})
    IN Sum(docs)

Min(a, b) == IF a <= b THEN a ELSE b

\* TfidfVectorizer(max_features=n): the vocabularies it may learn, the n most
\* frequent terms of the corpus (all of them when there are fewer); which of
\* several equally frequent terms are kept is not specified.
vocabularies(column, max_features) ==
    { V \in SUBSET TermsOf(column) :
        /\ Cardinality(V) = Min(max_features, Cardinality(TermsOf(column)))
        /\ \A t \in V, u \in TermsOf(column) \ V : TermCount(column, t) >= TermCount(column, u) }

Unfitted == [fitted |-> FALSE]

\* What ColumnTransformer.fit learns from the training frame, given the
\* vocabulary the vectorizer kept.
fitted_preprocessor(X_train, vocabulary) ==
    [fitted |-> TRUE,
     room_type_categories |-> SortBy(RoomTypes, Present(ColumnOf(X_train, "room_type"))),
     group_fill |-> most_frequent(ColumnOf(X_train, "neighbourhood_group"), NeighbourhoodGroups),
     group_categories |-> SortBy(NeighbourhoodGroups, Present(ColumnOf(X_train, "neighbourhood_group"))),
     vocabulary |-> SortBy(Terms, vocabulary)]

\* Whether ColumnTransformer.fit succeeds: every routed column is in the frame,
\* the most-frequent imputer finds a value (a column of missing values only is
\* dropped and leaves the one-hot encoder nothing to fit), and the vectorizer
\* finds a term (an empty vocabulary raises).
CanFitPreprocessor(X_train) ==
    /\ \A k \in 1..Len(transformers) : SeqRange(transformers[k].columns) \subseteq Columns(X_train)
    /\ Present(ColumnOf(X_train, "neighbourhood_group")) # {}
    /\ TermsOf(ColumnOf(X_train, "name")) # {}

\* The output columns of one fitted transformer: the input column each comes
\* from and the category or term it stands for.
Expansion(pre, t) ==
    IF t.name = "non_ordinal_cat"
    THEN [i \in 1..Len(pre.group_categories) |->
            [transformer |-> t.name, column |-> t.columns[1], feature |-> pre.group_categories[i]]]
    ELSE IF t.name = "transform_name"
    THEN [i \in 1..Len(pre.vocabulary) |->
            [transformer |-> t.name, column |-> t.columns[1], feature |-> pre.vocabulary[i]]]
    ELSE [i \in 1..Len(t.columns) |->
            [transformer |-> t.name, column |-> t.columns[i], feature |-> t.columns[i]]]

\* The columns of the router's output, left to right: the transformers'
\* outputs concatenated in the order of `transformers`.
RECURSIVE OutputColumnsFrom(_, _)
OutputColumnsFrom(pre, k) ==
    IF k > Len(transformers) THEN <<>>
    ELSE Expansion(pre, transformers[k]) \o OutputColumnsFrom(pre, k + 1)

\* ColumnTransformer(remainder="passthrough"): the columns given to no
\* transformer follow the transformers' outputs.
OutputColumnsPassthrough(pre) ==
    OutputColumnsFrom(pre, 1) \o
    [i \in 1..1 |-> [transformer |-> "remainder", column |-> "id", feature |-> "id"]]

OutputColumns(pre) == OutputColumnsFrom(pre, 1)

\* Whether the fitted router can transform a frame: the encoders raise on a
\* category they have not learned (OrdinalEncoder() and OneHotEncoder() both
\* keep handle_unknown="error").
CanTransform(pre, X) ==
    /\ \A k \in 1..Len(transformers) : SeqRange(transformers[k].columns) \subseteq Columns(X)
    /\ Present(ColumnOf(X, "room_type")) \subseteq SeqRange(pre.room_type_categories)
    /\ Present(ColumnOf(X, "neighbourhood_group")) \subseteq SeqRange(pre.group_categories)

\* One cell of the router's output: row i of the frame under output column oc.
\* The text weights are kept as term counts.
OutputCell(pre, X, i, oc) ==
    LET cell == X[i][oc.column] IN
    CASE oc.transformer = "ordinal_cat" ->
            RankIn(pre.room_type_categories, ValueOf(cell)) - 1
      [] oc.transformer = "non_ordinal_cat" ->
            IF impute_constant(<<cell>>, pre.group_fill)[1] = oc.feature THEN 1 ELSE 0
      [] oc.transformer = "impute_zero" ->
            impute_constant(<<cell>>, 0)[1]
      [] oc.transformer = "transform_date" ->
            date_imputer(ColumnOf(X, oc.column))[i]
      [] oc.transformer = "transform_name" ->
            LET doc == impute_constant(<<cell>>, <<>>)[1]
            IN Cardinality({ k \in 1..Len(doc) : doc[k] = oc.feature })

\* ColumnTransformer.transform: the feature matrix, one row per row of X.
transform(pre, X) ==
    [i \in 1..Len(X) |->
        [j \in 1..Len(OutputColumns(pre)) |-> OutputCell(pre, X, i, OutputColumns(pre)[j])]]

\* ------------------------------------------------------ training pipeline
\* Pipeline([('preprocessor', ...), ('random_forest', ...)]) as constructed.
new_pipeline == [preprocessor |-> Unfitted, random_forest |-> Unfitted, fits |-> 0]

IsFitted(pipe) == pipe.preprocessor.fitted /\ pipe.random_forest.fitted

\* Pipeline.predict: the router's transform, then the forest's predict; raises
\* on a step that is not fitted, on a frame the router cannot transform and on
\* a matrix of another width than the forest was fitted on.
predict(pipe, X) ==
    IF ~IsFitted(pipe) THEN [ok |-> FALSE, error |-> "NotFittedError", y |-> <<>>]
    ELSE IF ~CanTransform(pipe.preprocessor, X)
            \/ Len(OutputColumns(pipe.preprocessor)) # pipe.random_forest.n_features_in
         THEN [ok |-> FALSE, error |-> "ValueError", y |-> <<>>]
         ELSE [ok |-> TRUE, error |-> "",
               y |-> [i \in 1..Len(transform(pipe.preprocessor, X)) |-> pipe.random_forest.leaf]]

\* ------------------------------------------------- plot_feature_importance
RECURSIVE SumSeq(_)
SumSeq(s) == IF s = <<>> THEN 0 ELSE Head(s) + SumSeq(Tail(s))

\* The position a Python slice bound n denotes in a sequence of length len.
SliceBound(n, len) == IF n < 0 THEN (IF len + n < 0 THEN 0 ELSE len + n) ELSE Min(n, len)

\* s[:n] and s[n:]
SliceTo(s, n) == SubSeq(s, 1, SliceBound(n, Len(s)))
SliceFrom(s, n) == SubSeq(s, SliceBound(n, Len(s)) + 1, Len(s))

\* The text importance summed from one position too far.
plot_feature_importance_skips_one(feature_importances, feat_names) ==
    LET feat_imp == SliceTo(feature_importances, Len(feat_names) - 1)
        nlp_importance == SumSeq(SliceFrom(feature_importances, Len(feat_names)))
    IN [heights |-> Append(feat_imp, nlp_importance), labels |-> feat_names]

\* The bar chart: the heights of the bars and the tick labels under them.
plot_feature_importance(feature_importances, feat_names) ==
    LET feat_imp == SliceTo(feature_importances, Len(feat_names) - 1)
        nlp_importance == SumSeq(SliceFrom(feature_importances, Len(feat_names) - 1))
    IN [heights |-> Append(feat_imp, nlp_importance), labels |-> feat_names]

\* The importance vectors a fitted forest may report for n features: all of
\* the importance on one feature, or none anywhere (a forest that never split).
ImportanceVectors(n) ==
    { [j \in 1..n |-> IF j = hot THEN 1 ELSE 0] : hot \in 0..n }

NoFigure == [heights |-> <<>>, labels |-> <<>>]

\* ------------------------------------------------- train_random_forest go()
TfidfChoices == {1, 2}
ValSizePercents == {20, 50}
StratifyChoices == {"none", "room_type"}

TrainLocals ==
    [X |-> <<>>, X_train |-> <<>>, X_val |-> <<>>,
     sk_pipe |-> new_pipeline, feat_names |-> <<>>,
     scored |-> <<>>, y_pred |-> <<>>, exported |-> FALSE,
     feature_importances |-> <<>>, fig |-> NoFigure, image_logged |-> FALSE]

InitTrain ==
    /\ stage = "train"
    /\ pc = "init"
    /\ error = ""
    /\ \E m \in TfidfChoices, v \in ValSizePercents, st \in StratifyChoices :
          args = [trainval_artifact |-> 1, max_tfidf_features |-> m,
                  val_size |-> v, stratify_by |-> st]
    /\ \E file \in TrainValFiles : store = <<file>>
    /\ published = <<>>
    /\ df = <<>>
    /\ csv = NoFile
    /\ train = TrainLocals

TrainStep(from, to) ==
    /\ stage = "train" /\ pc = from
    /\ pc' = to
    /\ UNCHANGED <<stage, error, args, store, df, csv>>

\* wandb.init, run.config.update
TrainWandbInit == TrainStep("init", "rf_config") /\ UNCHANGED <<published, train>>

\* open(args.rf_config), json.load, the seed put into rf_config
TrainLoadConfig == TrainStep("rf_config", "use_artifact") /\ UNCHANGED <<published, train>>

\* run.use_artifact(args.trainval_artifact).file()
TrainUseArtifact ==
    /\ TrainStep("use_artifact", "read_csv")
    /\ args.trainval_artifact \in 1..Len(store)
    /\ UNCHANGED <<published, train>>

\* pd.read_csv, X.pop("price")
TrainReadCsv ==
    /\ TrainStep("read_csv", "split")
    /\ "price" \in Columns(store[args.trainval_artifact])
    /\ train' = [train EXCEPT !.X = DropColumn(store[args.trainval_artifact], "price")]
    /\ UNCHANGED published

\* The validation rows train_test_split may draw: the column to stratify by is
\* read from X, each of its classes needs two rows, and both parts are non-empty.
ValidationDraws(X) ==
    LET n == Len(X)
        n_val == CeilPercent(n, args.val_size)
        strat == ColumnOf(X, args.stratify_by)
    IN IF \/ args.stratify_by \notin Columns(X)
          \/ n_val < 1 \/ n - n_val < 1
          \/ \E i \in 1..n : Cardinality({ j \in 1..n : strat[j] = strat[i] }) < 2
       THEN {}
       ELSE { V \in SUBSET (1..n) : Cardinality(V) = n_val }

TrainSplit ==
    /\ TrainStep("split", "get_inference_pipeline")
    /\ \E V \in ValidationDraws(train.X) :
          train' = [train EXCEPT !.X_train = TakeRows(train.X, (1..Len(train.X)) \ V, 1),
                                 !.X_val = TakeRows(train.X, V, 1)]
    /\ UNCHANGED published

TrainGetPipeline ==
    /\ TrainStep("get_inference_pipeline", "fit_preprocessor")
    /\ train' = [train EXCEPT !.sk_pipe = new_pipeline, !.feat_names = processed_features]
    /\ UNCHANGED published

\* sk_pipe.fit, first half: the router is fitted on X_train.
TrainFitPreprocessor ==
    /\ TrainStep("fit_preprocessor", "fit_random_forest")
    /\ CanFitPreprocessor(train.X_train)
    /\ \E V \in vocabularies(ColumnOf(train.X_train, "name"), args.max_tfidf_features) :
          train' = [train EXCEPT !.sk_pipe.preprocessor = fitted_preprocessor(train.X_train, V),
                                 !.sk_pipe.fits = @ + 1]
    /\ UNCHANGED published

\* The forest fitted on the raw frame, before the router.
TrainFitRandomForestFirst ==
    /\ TrainStep("fit_preprocessor", "score")
    /\ train' = [train EXCEPT !.sk_pipe.random_forest =
                    [fitted |-> TRUE, n_features_in |-> 0, leaf |-> 100]]
    /\ UNCHANGED published

\* sk_pipe.fit, second half: the forest is fitted on the router's output.
TrainFitRandomForest ==
    /\ TrainStep("fit_random_forest", "score")
    /\ train' = [train EXCEPT !.sk_pipe.random_forest =
                    [fitted |-> TRUE,
                     n_features_in |-> Len(OutputColumns(train.sk_pipe.preprocessor)),
                     leaf |-> 100]]
    /\ UNCHANGED published

\* r_squared = sk_pipe.score(X_val, y_val), which predicts X_val
TrainScore ==
    /\ TrainStep("score", "predict")
    /\ predict(train.sk_pipe, train.X_val).ok
    /\ train' = [train EXCEPT !.scored = <<Len(predict(train.sk_pipe, train.X_val).y)>>]
    /\ UNCHANGED published

\* y_pred = sk_pipe.predict(X_val), mean_absolute_error
TrainPredict ==
    /\ TrainStep("predict", "log_metrics")
    /\ predict(train.sk_pipe, train.X_val).ok
    /\ train' = [train EXCEPT !.y_pred = predict(train.sk_pipe, train.X_val).y]
    /\ UNCHANGED published

\* The artifact logged together with the metrics, before the model is exported.
TrainLogMetricsAndArtifact ==
    /\ TrainStep("log_metrics", "save_model")
    /\ published' = Append(published, "model_export")
    /\ UNCHANGED train

\* wandb.run.log({"r2": ..., "mae": ...})
TrainLogMetrics == TrainStep("log_metrics", "save_model") /\ UNCHANGED <<published, train>>

\* shutil.rmtree, mlflow.sklearn.save_model(sk_pipe, "random_forest_dir")
TrainSaveModel ==
    /\ TrainStep("save_model", "log_artifact")
    /\ train' = [train EXCEPT !.exported = TRUE]
    /\ UNCHANGED published

\* wandb.Artifact, add_dir, the config updates, run.log_artifact
TrainLogArtifact ==
    /\ TrainStep("log_artifact", "plot_feature_importance")
    /\ train.exported
    /\ published' = Append(published, "model_export")
    /\ UNCHANGED train

\* fig_feat_imp = plot_feature_importance(sk_pipe, processed_features)
TrainPlot ==
    /\ TrainStep("plot_feature_importance", "log_image")
    /\ train.sk_pipe.random_forest.fitted
    /\ \E imp \in ImportanceVectors(train.sk_pipe.random_forest.n_features_in) :
          train' = [train EXCEPT !.feature_importances = imp,
                                 !.fig = plot_feature_importance(imp, train.feat_names)]
    /\ UNCHANGED published

\* run.summary['r2'], run.summary['mae'], run.log({"feature_importance": ...})
TrainLogImage ==
    /\ TrainStep("log_image", "done")
    /\ train' = [train EXCEPT !.image_logged = TRUE]
    /\ UNCHANGED published

\* Every step of go() calls a service, the file system or a library and may
\* raise; the exception is caught nowhere and the process ends, its frames and
\* its figure gone.
TrainRaise ==
    /\ stage = "train" /\ pc \notin {"done", "failed"}
    /\ error' = pc
    /\ pc' = "failed"
    /\ train' = [train EXCEPT !.X = <<>>, !.X_train = <<>>, !.X_val = <<>>,
                           !.feature_importances = <<>>, !.fig = NoFigure]
    /\ UNCHANGED <<stage, args, store, published, df, csv>>

NextTrain ==
    \/ TrainWandbInit
    \/ TrainLoadConfig
    \/ TrainUseArtifact
    \/ TrainReadCsv
    \/ TrainSplit
    \/ TrainGetPipeline
    \/ TrainFitPreprocessor
    \/ TrainFitRandomForest
    \/ TrainScore
    \/ TrainPredict
    \/ TrainLogMetrics
    \/ TrainSaveModel
    \/ TrainLogArtifact
    \/ TrainPlot
    \/ TrainLogImage
    \/ TrainRaise

SpecTrain == InitTrain /\ [][NextTrain]_vars

\* Either stage, started from its command line.
Init == InitClean \/ InitTrain

Next == NextClean \/ NextTrain

Spec == Init /\ [][Next]_vars

\* ------------------------------------- delta_date_feature called on its own
DayValues == 0..MaxDay
HourValues == {0, 12}

DateCells == {NoValue} \cup { Cell(DateString(d, h)) : d \in DayValues, h \in HourValues }

DateColumns == SeqsUpTo(DateCells, MaxDates) \ {<<>>}

InitDelta ==
    /\ stage = "delta"
    /\ pc = "ready"
    /\ error = ""
    /\ args = <<>>
    /\ store = <<>>
    /\ published = <<>>
    /\ df = <<>>
    /\ csv = NoFile
    /\ train = [dates |-> <<>>, deltas |-> <<>>, calls |-> 0]

\* date_imputer.transform(column): one more call, on any column.
DeltaTransform ==
    /\ stage = "delta" /\ train.calls < MaxCalls
    /\ \E column \in DateColumns :
          train' = [dates |-> column, deltas |-> date_imputer(column), calls |-> train.calls + 1]
    /\ UNCHANGED <<stage, pc, error, args, store, published, df, csv>>

NextDelta == DeltaTransform

SpecDelta == InitDelta /\ [][NextDelta]_vars

\* ---------------------------------- plot_feature_importance called on its own
ImportanceValues == 0..MaxImportance

InitPlot ==
    /\ stage = "plot"
    /\ pc = "ready"
    /\ error = ""
    /\ args = <<>>
    /\ store = <<>>
    /\ published = <<>>
    /\ df = <<>>
    /\ csv = NoFile
    /\ \E imp \in SeqsUpTo(ImportanceValues, MaxFeatures), n \in 0..MaxNames :
          train = [feature_importances |-> imp,
                   feat_names |-> SubSeq(processed_features, 1, n),
                   fig |-> NoFigure]

PlotCall ==
    /\ stage = "plot" /\ pc = "ready"
    /\ train' = [train EXCEPT !.fig = plot_feature_importance(train.feature_importances,
                                                              train.feat_names)]
    /\ pc' = "plotted"
    /\ UNCHANGED <<stage, error, args, store, published, df, csv>>

NextPlot == PlotCall

SpecPlot == InitPlot /\ [][NextPlot]_vars

\* ------------------------------------------------- claims on the cleaning stage
\* The versions of the artifact that a cleaning run wrote: all but the first.
CleanedVersions == 2..Len(store)

\* C1: every row of a dataset the cleaning stage wrote has its price within
\* [min_price, max_price], its longitude within [-74.25, -73.50], its latitude
\* within [40.5, 41.2], and no missing value in any column.
C1_OutputWithinBounds ==
    stage = "clean" =>
        \A v \in CleanedVersions : \A i \in 1..Len(store[v]) :
            LET r == store[v][i] IN
            /\ \A c \in DOMAIN r : r[c] # NaN
            /\ r.price >= args.min_price /\ r.price <= args.max_price
            /\ r.longitude >= -7425 /\ r.longitude <= -7350
            /\ r.latitude >= 4050 /\ r.latitude <= 4120

\* A written dataset that holds a row on the edge of the price range and of the box.
C1_Witness ==
    /\ stage = "clean" /\ pc = "done" /\ Len(store) = 2
    /\ \E i \in 1..Len(store[2]) :
          /\ store[2][i].price = args.max_price
          /\ store[2][i].longitude = -7425
          /\ store[2][i].latitude = 4120
    /\ Len(store[2]) < Len(store[1])

\* A line of the input that the filter is to keep.
ValidLine(r) ==
    /\ \A c \in DOMAIN r : r[c] # NaN
    /\ r.price >= args.min_price /\ r.price <= args.max_price
    /\ r.longitude >= -7425 /\ r.longitude <= -7350
    /\ r.latitude >= 4050 /\ r.latitude <= 4120

\* C2: the output of the first cleaning run is exactly the valid rows of its
\* input, each once, unchanged and in the input's order; while the frame is in
\* memory its rows are input rows under their own labels, in increasing order.
C2_KeepsExactlyValidRows ==
    stage = "clean" =>
        /\ Len(store) >= 2 => store[2] = SelectSeq(store[1], ValidLine)
        /\ args.input_artifact = 1 =>
              /\ \A i \in 1..Len(df) : df[i].row = store[1][df[i].idx + 1]
              /\ \A i \in 1..Len(df), j \in 1..Len(df) : i < j => df[i].idx < df[j].idx

\* A run that kept a valid row, dropped an invalid one before it, and kept order.
C2_Witness ==
    /\ stage = "clean" /\ pc = "done" /\ Len(store) = 2
    /\ Len(store[1]) = 2 /\ Len(store[2]) = 1
    /\ store[2][1] = store[1][2]

\* C3: filtering the filter's own output with the same bounds returns it unchanged.
C3_Idempotent ==
    stage = "clean" =>
        \A v \in CleanedVersions : v + 1 <= Len(store) => store[v + 1] = store[v]

\* A second run finished on a non-empty output of a first run that dropped a row.
C3_Witness ==
    /\ stage = "clean" /\ pc = "done" /\ Len(store) = 3
    /\ store[2] # <<>> /\ store[3] = store[2] /\ store[2] # store[1]

\* --------------------------------------------------- claims on the date delta
\* The timestamp of a cell after imputation, in hours since 2010-01-01 00:00.
HoursOf(cell) == IF cell = <<>> THEN 0 ELSE cell[1].day * 24 + cell[1].hour

\* Each output is the whole number of days from the row's date to the most
\* recent date of this call's column.
DeltaIsDaysToMax(dates, deltas) ==
    /\ Len(deltas) = Len(dates)
    /\ \E m \in 1..Len(dates) :
          /\ \A j \in 1..Len(dates) : HoursOf(dates[j]) <= HoursOf(dates[m])
          /\ \A i \in 1..Len(dates) :
                /\ deltas[i] >= 0
                /\ deltas[i] * 24 <= HoursOf(dates[m]) - HoursOf(dates[i])
                /\ HoursOf(dates[m]) - HoursOf(dates[i]) < (deltas[i] + 1) * 24
    /\ (\A i, j \in 1..Len(dates) : dates[i] = dates[j]) => \A i \in 1..Len(dates) : deltas[i] = 0

\* C4 (as amended): on every call, whatever the calls before, each output is the
\* whole number of days from the row's date to the most recent date of that
\* call's column; identical dates (the imputed 2010-01-01 included) give zeros,
\* every delta is >= 0, and for d1 < d2 delta(d1) >= delta(d2), with
\* delta(d1) > delta(d2) when d2 is at least a whole day after d1.
C4_DeltaOfEachCall ==
    (stage = "delta" /\ train.calls > 0) =>
        /\ DeltaIsDaysToMax(train.dates, train.deltas)
        /\ \A i, j \in 1..Len(train.dates) :
              HoursOf(train.dates[i]) < HoursOf(train.dates[j]) =>
                  /\ train.deltas[i] >= train.deltas[j]
                  /\ HoursOf(train.dates[j]) - HoursOf(train.dates[i]) >= 24
                        => train.deltas[i] > train.deltas[j]

\* C4 as stated: the same, with delta(d1) > delta(d2) for every d1 < d2.
C4_StrictlyDecreasing ==
    (stage = "delta" /\ train.calls > 0) =>
        /\ DeltaIsDaysToMax(train.dates, train.deltas)
        /\ \A i, j \in 1..Len(train.dates) :
              HoursOf(train.dates[i]) < HoursOf(train.dates[j]) => train.deltas[i] > train.deltas[j]

\* A second call, on a column with a missing date and a later date a day or more after.
C4_Witness ==
    /\ stage = "delta" /\ train.calls = 2
    /\ \E i, j \in 1..Len(train.dates) :
          /\ train.dates[i] = <<>> /\ train.dates[j] # <<>>
          /\ train.deltas[i] > 0 /\ train.deltas[j] = 0

\* ----------------------------------------- claims on plot_feature_importance
\* C5: the heights plotted sum to the sum of all raw importances.
C5_ImportanceConserved ==
    (stage = "plot" /\ pc = "plotted") =>
        SumSeq(train.fig.heights) = SumSeq(train.feature_importances)

\* A call that summed two non-zero importances into the last bar.
C5_Witness ==
    /\ stage = "plot" /\ pc = "plotted"
    /\ Len(train.feat_names) = 2 /\ Len(train.feature_importances) = 3
    /\ train.feature_importances[2] > 0 /\ train.feature_importances[3] > 0
    /\ train.fig.heights = <<train.feature_importances[1],
                             train.feature_importances[2] + train.feature_importances[3]>>

\* ------------------------------------------------ claims on the training stage
\* C6 as stated: the chart has exactly 5 bars and 5 labels, one per feature group.
C6_FiveBars ==
    (stage = "train" /\ train.fig # NoFigure) =>
        Len(train.fig.labels) = 5 /\ Len(train.fig.heights) = 5

\* C6 (as amended): the chart has exactly 11 bars and 11 labels, one per input
\* column given to a transformer.
C6_ElevenBars ==
    (stage = "train" /\ train.fig # NoFigure) =>
        /\ Len(train.fig.heights) = 11
        /\ train.fig.labels =
              <<"room_type", "neighbourhood_group", "minimum_nights", "number_of_reviews",
                "reviews_per_month", "calculated_host_listings_count", "availability_365",
                "longitude", "latitude", "last_review", "name">>

\* A finished training run with its chart drawn.
C6_Witness == stage = "train" /\ pc = "done" /\ train.fig # NoFigure

\* The distinct neighbourhood groups present in the training rows.
GroupsInTraining ==
    { g \in {"Bronx", "Queens"} :
        \E i \in 1..Len(train.X_train) : train.X_train[i].neighbourhood_group = <<g>> }

\* C7: the router's output is the five groups' outputs side by side in the fixed
\* order, 1 + k + 7 + 1 + t columns wide, t <= max_tfidf_features; the groups'
\* input columns are pairwise disjoint and a column in no group yields nothing.
C7_RouterOutput ==
    (stage = "train" /\ train.sk_pipe.preprocessor.fitted /\ train.X_train # <<>>) =>
        LET cols == OutputColumns(train.sk_pipe.preprocessor)
            k == Cardinality(GroupsInTraining)
            t == Len(train.sk_pipe.preprocessor.vocabulary)
        IN /\ t <= args.max_tfidf_features
           /\ Len(cols) = 1 + k + 7 + 1 + t
           /\ cols[1].column = "room_type"
           /\ \A j \in 2..(1 + k) : cols[j].column = "neighbourhood_group"
           /\ { cols[j].feature : j \in 2..(1 + k) } = GroupsInTraining
           /\ [j \in 1..7 |-> cols[1 + k + j].column] =
                 <<"minimum_nights", "number_of_reviews", "reviews_per_month",
                   "calculated_host_listings_count", "availability_365",
                   "longitude", "latitude">>
           /\ cols[9 + k].column = "last_review"
           /\ \A j \in (10 + k)..Len(cols) : cols[j].column = "name"
           /\ \A j \in 1..Len(cols) : cols[j].column \notin {"id", "price"}
           /\ \A a, b \in 1..Len(transformers) :
                 a # b => SeqRange(transformers[a].columns) \cap SeqRange(transformers[b].columns) = {}
           /\ train.sk_pipe.random_forest.fitted =>
                 train.sk_pipe.random_forest.n_features_in = Len(cols)

\* A router fitted on two neighbourhood groups and two terms.
C7_Witness ==
    /\ stage = "train" /\ pc = "score"
    /\ Cardinality(GroupsInTraining) = 2
    /\ Len(OutputColumns(train.sk_pipe.preprocessor)) = 13

\* What holds of the pipeline and of go()'s results in every state.
C8_State ==
    stage = "train" =>
        /\ train.sk_pipe.random_forest.fitted => train.sk_pipe.preprocessor.fitted
        /\ error = "fit_preprocessor" => ~train.sk_pipe.random_forest.fitted
        /\ ~IsFitted(train.sk_pipe) =>
              /\ ~predict(train.sk_pipe, train.X_val).ok
              /\ train.scored = <<>> /\ train.y_pred = <<>>
        /\ train.scored # <<>> => train.sk_pipe.fits = 1
        /\ pc \in {"predict", "log_metrics", "save_model", "log_artifact",
                   "plot_feature_importance", "log_image", "done"} =>
              /\ train.scored = <<Len(train.X_val)>>
              /\ Len(train.X_val) >= 1
        /\ pc \in {"log_metrics", "save_model", "log_artifact",
                   "plot_feature_importance", "log_image", "done"} =>
              Len(train.y_pred) = Len(train.X_val)

\* What holds of every step: the forest is fitted from a fitted router, and a
\* fitted pipeline is not changed.
C8_Step ==
    stage = "train" =>
        /\ (train'.sk_pipe.random_forest.fitted /\ ~train.sk_pipe.random_forest.fitted) =>
              train.sk_pipe.preprocessor.fitted
        /\ IsFitted(train.sk_pipe) => train'.sk_pipe = train.sk_pipe

\* C8: the forest is fitted only after the router (never after a failed router
\* fit), predict is an error until fit has completed, and go() scores and
\* predicts only after fit, one prediction per validation row, from the one
\* fitted state, which nothing changes afterwards.
C8_FitProtocol == []C8_State /\ [][C8_Step]_vars

\* A run that scored and predicted two validation rows and finished.
C8_Witness ==
    /\ stage = "train" /\ pc = "done"
    /\ Len(train.X_val) = 2 /\ Len(train.y_pred) = 2 /\ train.scored = <<2>>

\* C9 as stated: in a run in which any step failed, no artifact was published.
C9_AllOrNothing == error # "" => published = <<>>

\* C9 (as amended): no artifact is published by a run in which a step up to and
\* including the publish call fails; the cleaning stage publishes as its last
\* step, the training stage publishes before plotting and logging the chart,
\* so that only a failure of those two leaves a published artifact.
C9_PublishedOnlyAfterAllBefore ==
    /\ Len(published) <= 1
    /\ stage = "clean" => (published # <<>> => pc = "done" /\ error = "")
    /\ stage = "train" =>
          (published # <<>> =>
              /\ pc \in {"plot_feature_importance", "log_image", "done", "failed"}
              /\ error \in {"", "plot_feature_importance", "log_image"}
              /\ train.exported /\ IsFitted(train.sk_pipe) /\ train.scored # <<>>)

\* A training run that failed while plotting, its model already published.
C9_Witness ==
    /\ stage = "train" /\ pc = "failed" /\ error = "plot_feature_importance"
    /\ published = <<"model_export">>

\* The summed importance of the router's output columns that satisfy P.
ImportanceWhere(P(_)) ==
    LET cols == OutputColumns(train.sk_pipe.preprocessor)
        RECURSIVE From(_)
        From(j) == IF j > Len(cols) THEN 0
                   ELSE (IF P(cols[j]) THEN train.feature_importances[j] ELSE 0) + From(j + 1)
    IN From(1)

\* C10: each of the first N-1 bars is the importance of the output columns that
\* come from the input column of its label, and the last bar is the summed
\* importance of exactly the text columns.
C10_BarsMatchLabels ==
    (stage = "train" /\ train.fig # NoFigure) =>
        LET N == Len(train.fig.labels) IN
        /\ \A i \in 1..(N - 1) :
              LET FromLabel(oc) == oc.column = train.fig.labels[i]
              IN train.fig.heights[i] = ImportanceWhere(FromLabel)
        /\ LET IsText(oc) == oc.transformer = "transform_name"
           IN train.fig.heights[N] = ImportanceWhere(IsText)

====
